---- MODULE Spec2Model ----
(***************************************************************************)
(* Model of gaze_tracking/gaze_tracking.py (class GazeTracking).           *)
(*                                                                         *)
(* State: the frame held by the tracker and its two eye models.            *)
(* refresh(frame) is the only operation that changes state; every query    *)
(* (pupils_located, the coordinate and ratio queries, the is_* predicates, *)
(* true_gaze_direction, true_gaze_blinking) is a pure function of the      *)
(* state and is an operator here.                                          *)
(*                                                                         *)
(* Python values are dynamically typed: a value that can be None, a        *)
(* number or a raised exception is a record tagged with its type.          *)
(* Python floats are modelled as exact rationals in lowest terms (the      *)
(* binary rounding of a double, a few units in the last place, is not      *)
(* modelled); closure ratios are held in thousandths.                      *)
(*                                                                         *)
(* A frame is modelled by what the collaborators make of it: whether       *)
(* cv2.cvtColor accepts it, the faces the detector returns, and for each   *)
(* face the fields the two Eye objects built from its landmarks hold.      *)
(***************************************************************************)
EXTENDS Integers, Sequences, FiniteSets, TLC

VARIABLES
    frame,         \* self.frame
    eye_left,      \* self.eye_left
    eye_right,     \* self.eye_right
    raised,        \* the exception the last refresh call left with, or None
    prior_located  \* history: pupils_located just before the last refresh

vars == <<frame, eye_left, eye_right, raised, prior_located>>

----------------------------------------------------------------------------
(* Python values *)

None == [type |-> "NoneType"]

ZeroDivisionError == [type |-> "ZeroDivisionError"]

\* the error cv2.cvtColor raises on a frame it cannot convert
CvError == [type |-> "cv2.error"]

PyInt(n) == [type |-> "int", val |-> n]

PyBool(b) == [type |-> "bool", val |-> b]

Tuple(a, b) == [type |-> "tuple", x |-> a, y |-> b]

Abs(n) == IF n < 0 THEN -n ELSE n

RECURSIVE GCD(_, _)
GCD(a, b) == IF b = 0 THEN a ELSE GCD(b, a % b)

\* the number n/d (d # 0), sign carried by num, in lowest terms
Float(n, d) ==
    LET g == GCD(Abs(n), Abs(d))
        s == IF d < 0 THEN -1 ELSE 1
    IN [type |-> "float", num |-> (s * n) \div g, den |-> Abs(d) \div g]

\* a / b with true division (from __future__ import division)
TrueDiv(a, b) == IF b = 0 THEN ZeroDivisionError ELSE Float(a, b)

FAdd(f, g) == Float(f.num * g.den + g.num * f.den, f.den * g.den)

FSub(f, g) == Float(f.num * g.den - g.num * f.den, f.den * g.den)

FMul(f, g) == Float(f.num * g.num, f.den * g.den)

FLe(f, g) == f.num * g.den <= g.num * f.den

FGe(f, g) == f.num * g.den >= g.num * f.den

FGt(f, g) == f.num * g.den > g.num * f.den

----------------------------------------------------------------------------
(* Module constants *)

RIGHT_THRESHOLD == Float(30, 100)

LEFT_THRESHOLD == Float(65, 100)

TOP_THRESHOLD == Float(45, 100)

BOTTOM_THRESHOLD == Float(687, 1000)

BLINKING_THRESHOLD == Float(468, 100)

WINKING_RIGHT_THRESHOLD == Float(45, 10)

WINKING_LEFT_THRESHOLD == Float(42, 10)

WINKING_EYE_DIFF == Float(8, 100)

----------------------------------------------------------------------------
(* Eye objects and frames *)

\* the fields of an Eye that GazeTracking reads; blinking in thousandths
EyeObj(o, c, p, b) == [origin |-> o, center |-> c, pupil |-> p, blinking |-> b]

Pupil(px, py) == [x |-> px, y |-> py]

\* Eye(frame, landmarks, side, calibration): side 0 is the left eye
Eye(landmarks, side) == IF side = 0 THEN landmarks.left ELSE landmarks.right

MalformedFrame == [kind |-> "malformed"]

Image(faces) == [kind |-> "image", faces |-> faces]

Face(l, r) == [left |-> l, right |-> r]

----------------------------------------------------------------------------
(* GazeTracking *)

Init ==
    /\ frame = None
    /\ eye_left = None
    /\ eye_right = None
    /\ raised = None
    /\ prior_located = FALSE

\* int(v): succeeds on a number, raises on None
IntOk(v) == v.type = "int"

PupilOk(eye) ==
    /\ eye # None
    /\ eye.pupil # None
    /\ IntOk(eye.pupil.x)
    /\ IntOk(eye.pupil.y)

pupils_located == PupilOk(eye_left) /\ PupilOk(eye_right)

\* refresh whose IndexError handler leaves the eye models as they were
refresh_keeping_eyes(f) ==
    /\ frame' = f
    /\ prior_located' = pupils_located
    /\ raised' = IF f.kind = "malformed" THEN CvError ELSE None
    /\ IF f.kind = "malformed" \/ Len(f.faces) = 0
       THEN UNCHANGED <<eye_left, eye_right>>
       ELSE /\ eye_left' = Eye(f.faces[1], 0)
            /\ eye_right' = Eye(f.faces[1], 1)

\* refresh: self.frame = frame, then _analyze()
refresh(f) ==
    /\ frame' = f
    /\ prior_located' = pupils_located
    /\ IF f.kind = "malformed"
       THEN \* cv2.cvtColor raises; the error leaves _analyze and refresh
            /\ raised' = CvError
            /\ UNCHANGED <<eye_left, eye_right>>
       ELSE /\ raised' = None
            /\ IF Len(f.faces) = 0
               THEN \* faces[0] raises IndexError, caught
                    /\ eye_left' = None
                    /\ eye_right' = None
               ELSE /\ eye_left' = Eye(f.faces[1], 0)
                    /\ eye_right' = Eye(f.faces[1], 1)

\* pupil_left_coords guarded by the left eye's pupil alone
pupil_left_coords_own_eye ==
    IF PupilOk(eye_left)
    THEN Tuple(eye_left.origin[1] + eye_left.pupil.x.val,
               eye_left.origin[2] + eye_left.pupil.y.val)
    ELSE None

\* pupil_left_coords / pupil_right_coords
pupil_left_coords ==
    IF pupils_located
    THEN Tuple(eye_left.origin[1] + eye_left.pupil.x.val,
               eye_left.origin[2] + eye_left.pupil.y.val)
    ELSE None

pupil_right_coords ==
    IF pupils_located
    THEN Tuple(eye_right.origin[1] + eye_right.pupil.x.val,
               eye_right.origin[2] + eye_right.pupil.y.val)
    ELSE None

\* (pupil_left + pupil_right) / 2 on axis i (1 = x, 2 = y); the left
\* quotient is evaluated first, a zero divisor raises
Ratio(pl, cl, pr, cr) ==
    LET pupil_left == TrueDiv(pl, cl * 2 - 10)
        pupil_right == TrueDiv(pr, cr * 2 - 10)
    IN IF pupil_left = ZeroDivisionError \/ pupil_right = ZeroDivisionError
       THEN ZeroDivisionError
       ELSE FMul(FAdd(pupil_left, pupil_right), Float(1, 2))

horizontal_ratio ==
    IF pupils_located
    THEN Ratio(eye_left.pupil.x.val, eye_left.center[1],
               eye_right.pupil.x.val, eye_right.center[1])
    ELSE None

vertical_ratio ==
    IF pupils_located
    THEN Ratio(eye_left.pupil.y.val, eye_left.center[2],
               eye_right.pupil.y.val, eye_right.center[2])
    ELSE None

get_bl == IF pupils_located THEN Float(eye_right.blinking, 1000) ELSE None

\* get_br reading the eye its name suggests
get_br_unflipped == IF pupils_located THEN Float(eye_right.blinking, 1000) ELSE None

get_br == IF pupils_located THEN Float(eye_left.blinking, 1000) ELSE None

both_pupils_found == pupils_located

\* ratio <= threshold, the error of the ratio passing through
RatioLe(r, t) == IF r = ZeroDivisionError THEN r ELSE PyBool(FLe(r, t))

RatioGe(r, t) == IF r = ZeroDivisionError THEN r ELSE PyBool(FGe(r, t))

\* is_right with a strict comparison
is_right_strict ==
    IF pupils_located
    THEN IF horizontal_ratio = ZeroDivisionError
         THEN ZeroDivisionError
         ELSE PyBool(~FGe(horizontal_ratio, RIGHT_THRESHOLD))
    ELSE None

is_right == IF pupils_located THEN RatioLe(horizontal_ratio, RIGHT_THRESHOLD) ELSE None

is_left == IF pupils_located THEN RatioGe(horizontal_ratio, LEFT_THRESHOLD) ELSE None

is_center ==
    IF pupils_located
    THEN IF is_right = ZeroDivisionError
         THEN ZeroDivisionError
         ELSE PyBool(is_right # PyBool(TRUE) /\ is_left # PyBool(TRUE))
    ELSE None

is_blinking ==
    IF pupils_located
    THEN PyBool(FGt(get_bl, BLINKING_THRESHOLD) /\ FGt(get_br, BLINKING_THRESHOLD))
    ELSE None

\* is_winking_right without the asymmetry guard
is_winking_right_threshold_only ==
    IF pupils_located THEN PyBool(FGt(get_br, WINKING_RIGHT_THRESHOLD)) ELSE None

is_winking_right ==
    IF pupils_located
    THEN PyBool(/\ FGt(get_br, WINKING_RIGHT_THRESHOLD)
                /\ FGe(FSub(get_br, get_bl),
                       FMul(WINKING_EYE_DIFF, WINKING_RIGHT_THRESHOLD)))
    ELSE None

\* is_winking_left without the asymmetry guard
is_winking_left_threshold_only ==
    IF pupils_located THEN PyBool(FGt(get_bl, WINKING_LEFT_THRESHOLD)) ELSE None

is_winking_left ==
    IF pupils_located
    THEN PyBool(/\ FGt(get_bl, WINKING_LEFT_THRESHOLD)
                /\ FGe(FSub(get_bl, get_br),
                       FMul(WINKING_EYE_DIFF, WINKING_LEFT_THRESHOLD)))
    ELSE None

is_up == IF pupils_located THEN RatioLe(vertical_ratio, TOP_THRESHOLD) ELSE None

is_bottom == IF pupils_located THEN RatioGe(vertical_ratio, BOTTOM_THRESHOLD) ELSE None

\* true_gaze_blinking testing the winks before the blink
true_gaze_blinking_winks_first ==
    IF ~pupils_located THEN PyInt(-1)
    ELSE IF is_winking_right.val THEN PyInt(2)
    ELSE IF is_winking_left.val THEN PyInt(1)
    ELSE IF is_blinking.val THEN PyInt(3)
    ELSE PyInt(0)

true_gaze_blinking ==
    IF ~pupils_located THEN PyInt(-1)
    ELSE IF is_blinking.val THEN PyInt(3)
    ELSE IF is_winking_right.val THEN PyInt(2)
    ELSE IF is_winking_left.val THEN PyInt(1)
    ELSE PyInt(0)

\* the horizontal offsets with left and right exchanged
HOffset_flipped ==
    IF is_left = ZeroDivisionError THEN ZeroDivisionError
    ELSE IF is_left.val THEN PyInt(2)
    ELSE IF is_right.val THEN PyInt(0)
    ELSE PyInt(1)

\* the first if/elif chain of true_gaze_direction
HOffset ==
    IF is_left = ZeroDivisionError THEN ZeroDivisionError
    ELSE IF is_left.val THEN PyInt(0)
    ELSE IF is_right.val THEN PyInt(2)
    ELSE PyInt(1)

\* the second if/elif chain of true_gaze_direction
VOffset ==
    IF is_up = ZeroDivisionError THEN ZeroDivisionError
    ELSE IF is_up.val THEN PyInt(0)
    ELSE IF is_bottom.val THEN PyInt(6)
    ELSE PyInt(3)

true_gaze_direction ==
    IF ~pupils_located THEN PyInt(-1)
    ELSE IF HOffset = ZeroDivisionError \/ VOffset = ZeroDivisionError
         THEN ZeroDivisionError
         ELSE PyInt(HOffset.val + VOffset.val)

----------------------------------------------------------------------------
(* Frames the tracker is driven with *)

\* largest pupil coordinate of the frames of Spec
MaxCoord == 1

\* largest left-pupil coordinate of the frames of SpecGaze
MaxPupil == 9

OriginLeft == <<20, 30>>

OriginRight == <<60, 32>>

\* a pupil: missing, or a point either coordinate of which may be None
PupilVals ==
    {None} \cup {Pupil(px, py) : px \in {None} \cup {PyInt(n) : n \in 0..MaxCoord},
                                py \in {None} \cup {PyInt(n) : n \in 0..MaxCoord}}

EyeVals(origin) ==
    {EyeObj(origin, <<10, 10>>, p, b) : p \in PupilVals, b \in {3000, 5000}}

Frames ==
    {MalformedFrame, Image(<<>>)}
    \cup {Image(<<Face(l, r)>>) : l \in EyeVals(OriginLeft), r \in EyeVals(OriginRight)}

\* eye-region centers (half the width and height of the eye region): regions
\* wider than, as wide as and narrower than the 10 pixels of the ratio formula
GazeCenters == {<<10, 10>>, <<7, 10>>, <<5, 10>>, <<10, 5>>, <<3, 3>>}

\* the right pupil sits at the left pupil's position or one pixel further
GazeSkews == {0, 1}

\* pupil coordinates lie inside the eye region, of size 2 * center
Inside(n, c) == n < 2 * c

GazeFaces ==
    {Face(EyeObj(OriginLeft, c, Pupil(PyInt(x), PyInt(y)), 3000),
          EyeObj(OriginRight, c, Pupil(PyInt(x + sx), PyInt(y + sy)), 3000)) :
        c \in GazeCenters, x \in 0..MaxPupil, y \in 0..MaxPupil,
        sx \in GazeSkews, sy \in GazeSkews}

GazeFrames ==
    {MalformedFrame, Image(<<>>)}
    \cup {Image(<<fc>>) : fc \in {g \in GazeFaces :
              /\ Inside(g.left.pupil.x.val, g.left.center[1])
              /\ Inside(g.left.pupil.y.val, g.left.center[2])
              /\ Inside(g.right.pupil.x.val, g.right.center[1])
              /\ Inside(g.right.pupil.y.val, g.right.center[2])}}

\* closure ratios (thousandths) at and just above each threshold
BlinkNear == {t + j : t \in {4200, 4500, 4680}, j \in {0, 1}}

\* ... and the values below them by about the two asymmetry margins
BlinkVals ==
    BlinkNear
    \cup {v - d : v \in BlinkNear, d \in {335, 336, 359, 360}}
    \cup {3000, 4000, 4600, 4700, 5200}

BlinkFrames ==
    {MalformedFrame, Image(<<>>)}
    \cup {Image(<<Face(EyeObj(OriginLeft, <<10, 10>>, Pupil(PyInt(5), PyInt(5)), bl),
                       EyeObj(OriginRight, <<10, 10>>, Pupil(PyInt(5), PyInt(5)), br))>>) :
              bl \in BlinkVals, br \in BlinkVals}

Next == \E f \in Frames : refresh(f)

Spec == Init /\ [][Next]_vars

NextGaze == \E f \in GazeFrames : refresh(f)

SpecGaze == Init /\ [][NextGaze]_vars

NextBlink == \E f \in BlinkFrames : refresh(f)

SpecBlink == Init /\ [][NextBlink]_vars

----------------------------------------------------------------------------
(* Properties *)

NoFaceFrame == frame # None /\ frame.kind = "image" /\ Len(frame.faces) = 0

\* C1: whenever the most recent refresh found no face, refresh returned
\* without raising, pupils_located is false, the coordinate and ratio
\* queries return None and both classifications return -1, also when the
\* refresh before had located both pupils.
C1_NoFaceAllAbsent ==
    NoFaceFrame =>
        /\ raised = None
        /\ ~pupils_located
        /\ pupil_left_coords = None
        /\ pupil_right_coords = None
        /\ horizontal_ratio = None
        /\ vertical_ratio = None
        /\ true_gaze_direction = PyInt(-1)
        /\ true_gaze_blinking = PyInt(-1)

C1_Witness ==
    NoFaceFrame /\ prior_located /\ true_gaze_direction = PyInt(-1)

\* the offsets as the claims state them
ExpectedH(h) ==
    IF FLe(h, RIGHT_THRESHOLD) THEN 2 ELSE IF FGe(h, LEFT_THRESHOLD) THEN 0 ELSE 1

ExpectedV(v) ==
    IF FLe(v, TOP_THRESHOLD) THEN 0 ELSE IF FGe(v, BOTTOM_THRESHOLD) THEN 6 ELSE 3

RatiosDefined ==
    /\ pupils_located
    /\ horizontal_ratio.type = "float"
    /\ vertical_ratio.type = "float"

\* C2: with pupils located, for every pair of ratios (h, v) the direction is
\* h_offset + v_offset, h_offset being 2 for h <= RIGHT_THRESHOLD, 0 for
\* h >= LEFT_THRESHOLD and 1 otherwise, v_offset 0 for v <= TOP_THRESHOLD,
\* 6 for v >= BOTTOM_THRESHOLD and 3 otherwise; the result is in 0..8, and
\* it is -1 exactly when pupils_located is false.
C2_DirectionGrid ==
    /\ (true_gaze_direction = PyInt(-1)) <=> ~pupils_located
    /\ RatiosDefined =>
        /\ true_gaze_direction =
               PyInt(ExpectedH(horizontal_ratio) + ExpectedV(vertical_ratio))
        /\ true_gaze_direction.val \in 0..8

\* the inclusive boundary: h == RIGHT_THRESHOLD is classified right
C2_Witness ==
    /\ RatiosDefined
    /\ horizontal_ratio = RIGHT_THRESHOLD
    /\ true_gaze_direction.val % 3 = 2

AtRatios(h, v, d) ==
    (RatiosDefined /\ horizontal_ratio = h /\ vertical_ratio = v)
        => true_gaze_direction = PyInt(d)

\* C3 as stated: the ratios (0.20, 0.20) give direction 0, (0.50, 0.50)
\* give 4 and (0.80, 0.90) give 8.
C3_AsStated ==
    /\ AtRatios(Float(20, 100), Float(20, 100), 0)
    /\ AtRatios(Float(50, 100), Float(50, 100), 4)
    /\ AtRatios(Float(80, 100), Float(90, 100), 8)

\* C3 amended: the ratios (0.20, 0.20) give direction 2 (top-right),
\* (0.50, 0.50) give 4 (true center) and (0.80, 0.90) give 6 (bottom-left).
C3_Examples ==
    /\ AtRatios(Float(20, 100), Float(20, 100), 2)
    /\ AtRatios(Float(50, 100), Float(50, 100), 4)
    /\ AtRatios(Float(80, 100), Float(90, 100), 6)

C3_Witness ==
    /\ RatiosDefined
    /\ horizontal_ratio = Float(80, 100)
    /\ vertical_ratio = Float(90, 100)
    /\ true_gaze_direction = PyInt(6)

\* both eyes' closure ratios (thousandths) above BLINKING_THRESHOLD
BothClosed ==
    /\ eye_left.blinking * 100 > 468 * 1000
    /\ eye_right.blinking * 100 > 468 * 1000

\* C4: with pupils located, whenever both closure ratios exceed
\* BLINKING_THRESHOLD the blink status is 3, also when a wink condition
\* holds as well.
C4_BlinkWins ==
    (pupils_located /\ BothClosed) => true_gaze_blinking = PyInt(3)

C4_Witness ==
    /\ pupils_located
    /\ BothClosed
    /\ is_winking_right.val
    /\ true_gaze_blinking = PyInt(3)

\* closure `wink` above threshold t (tenths) and above `other` by at least
\* 0.08 * t
WinkCondition(wink, other, t) ==
    /\ wink * 10 > t * 1000
    /\ (wink - other) * 1000 >= 8 * t * 1000

\* C5 as stated: without a full blink the status is 2 exactly when the
\* closure of eye_right (side 1) exceeds 4.5 and exceeds the closure of
\* eye_left (side 0) by at least 0.08 * 4.5.
C5_AsStated ==
    (pupils_located /\ ~BothClosed) =>
        (true_gaze_blinking = PyInt(2)
            <=> WinkCondition(eye_right.blinking, eye_left.blinking, 45))

\* C5 amended: without a full blink the status is 2 exactly when the
\* closure of eye_left (side 0, read by get_br) exceeds 4.5 and exceeds the
\* closure of eye_right (side 1, read by get_bl) by at least 0.08 * 4.5.
C5_RightWink ==
    (pupils_located /\ ~BothClosed) =>
        (true_gaze_blinking = PyInt(2)
            <=> WinkCondition(eye_left.blinking, eye_right.blinking, 45))

C5_Witness ==
    /\ pupils_located
    /\ eye_left.blinking = 4600
    /\ eye_right.blinking = 4000
    /\ true_gaze_blinking = PyInt(2)

OwnCoords(eye) ==
    Tuple(eye.origin[1] + eye.pupil.x.val, eye.origin[2] + eye.pupil.y.val)

\* C6: the two coordinate queries are both defined or both None; they are
\* None when either eye or either pupil coordinate is missing, and when
\* defined each is origin + pupil of its own eye.
C6_PairOrNothing ==
    /\ (pupil_left_coords = None) <=> (pupil_right_coords = None)
    /\ (~PupilOk(eye_left) \/ ~PupilOk(eye_right)) =>
           (pupil_left_coords = None /\ pupil_right_coords = None)
    /\ pupil_left_coords # None => pupil_left_coords = OwnCoords(eye_left)
    /\ pupil_right_coords # None => pupil_right_coords = OwnCoords(eye_right)

\* one eye's pupil found, the other's not
C6_Witness ==
    /\ PupilOk(eye_left)
    /\ eye_right # None
    /\ ~PupilOk(eye_right)
    /\ pupil_left_coords = None
    /\ pupil_right_coords = None

InUnitInterval(r) ==
    /\ r.type = "float"
    /\ FLe(Float(0, 1), r)
    /\ FLe(r, Float(1, 1))

\* C7: with pupils located both ratios are numbers in [0, 1], whatever the
\* pupil coordinates and eye-region centers; otherwise they are None.
C7_RatiosInUnitInterval ==
    IF pupils_located
    THEN InUnitInterval(horizontal_ratio) /\ InUnitInterval(vertical_ratio)
    ELSE horizontal_ratio = None /\ vertical_ratio = None

\* C8: after a refresh that raised, no eye model of an earlier frame is
\* observable through the queries.
C8_NothingStaleAfterError ==
    raised # None =>
        /\ ~pupils_located
        /\ pupil_left_coords = None
        /\ pupil_right_coords = None
        /\ horizontal_ratio = None
        /\ vertical_ratio = None
        /\ true_gaze_direction = PyInt(-1)
        /\ true_gaze_blinking = PyInt(-1)

\* C9: with pupils located, if the closure ratios are not both above
\* BLINKING_THRESHOLD and differ by less than 0.08 * 4.2, the status is 0.
C9_NoWinkWithoutAsymmetry ==
    (/\ pupils_located
     /\ ~BothClosed
     /\ Abs(eye_left.blinking - eye_right.blinking) * 1000 < 8 * 42 * 1000)
        => true_gaze_blinking = PyInt(0)

C9_Witness ==
    /\ pupils_located
    /\ eye_left.blinking = 4600
    /\ eye_right.blinking = 4500
    /\ true_gaze_blinking = PyInt(0)

\* the status with the left-wink check made before the right-wink check
BlinkingLeftFirst ==
    IF is_blinking.val THEN 3
    ELSE IF is_winking_left.val THEN 1
    ELSE IF is_winking_right.val THEN 2
    ELSE 0

\* C10: with pupils located the two wink predicates are never both true, the
\* status does not depend on the order of the two wink checks, status 2
\* implies a right wink without a blink and status 1 a left wink without a
\* blink.
C10_WinksExclusive ==
    pupils_located =>
        /\ ~(is_winking_right.val /\ is_winking_left.val)
        /\ true_gaze_blinking = PyInt(BlinkingLeftFirst)
        /\ true_gaze_blinking = PyInt(2) => (is_winking_right.val /\ ~is_blinking.val)
        /\ true_gaze_blinking = PyInt(1) => (is_winking_left.val /\ ~is_blinking.val)

C10_Witness ==
    /\ pupils_located
    /\ is_winking_left.val
    /\ eye_left.blinking > 4500
    /\ true_gaze_blinking = PyInt(1)

====
